---- MODULE Spec2Model ----
(***************************************************************************)
(* A model of the two Streamlit applications of dsh-notebooks-ui:          *)
(*   deploy_app/streamlit_app.py    the notebooks viewer (GitHub first,    *)
(*                                  local fallback, HTML export, CSS)      *)
(*   template_ui/streamlit_app.py   the template generator and the         *)
(*                                  Notebooks tab with its cache           *)
(* Text is modelled as sequences of one-character strings, so that         *)
(* lower(), find(), endswith(), the "in" test and slicing are computed     *)
(* as Python computes them.                                                *)
(***************************************************************************)
EXTENDS Integers, Sequences, FiniteSets, TLC

\* The viewer: the page one run of main() leaves.
VARIABLES view
\* The Notebooks tab: a.ipynb on disk, the entries of st.cache_data, the
\* number of calls of _convert_notebook_to_html, the conversions that
\* returned (by fingerprint), the page of the last click.
VARIABLES disk, cache, conversions, completed, tab
\* The Templates tab: the files of the output directory, the page of the
\* last click.
VARIABLES outputs, tpl
\* inject_custom_css: its arguments and its result.
VARIABLES css_in, css_out

vars == << view, disk, cache, conversions, completed, tab, outputs, tpl, css_in, css_out >>

viewerVars == << view >>
tabVars == << disk, cache, conversions, completed, tab >>
templateVars == << outputs, tpl >>
cssVars == << css_in, css_out >>

(* ------------------------------------------------------------------ *)
(* Text                                                                 *)
(* ------------------------------------------------------------------ *)

\* The double quote, the backslash and the backtick, named by their code points.
DQuote == "U+0022"
Backslash == "U+005C"
Backtick == "U+0060"

\* The printable ASCII characters in code-point order, from 32 to 126.
Printable ==
  << " ", "!", DQuote, "#", "$", "%", "&", "'", "(", ")", "*", "+", ",", "-", ".", "/",
     "0", "1", "2", "3", "4", "5", "6", "7", "8", "9", ":", ";", "<", "=", ">", "?",
     "@", "A", "B", "C", "D", "E", "F", "G", "H", "I", "J", "K", "L", "M", "N", "O",
     "P", "Q", "R", "S", "T", "U", "V", "W", "X", "Y", "Z", "[", Backslash, "]", "^", "_",
     Backtick, "a", "b", "c", "d", "e", "f", "g", "h", "i", "j", "k", "l", "m", "n", "o",
     "p", "q", "r", "s", "t", "u", "v", "w", "x", "y", "z", "{", "|", "}", "~" >>

\* U+0000, below every character of a name: it joins the parts of a path
\* into a key ordered as the list of the parts is. U+000A is the line feed.
Nul == "U+0000"
Newline == "U+000A"

\* Two characters outside ASCII: U+0130 (capital I with dot above) and
\* U+0307 (combining dot above). str.lower() maps U+0130 to the two
\* characters U+0069 U+0307.
IDot == "U+0130"
DotAbove == "U+0307"

Chars == {Printable[i] : i \in 1..Len(Printable)} \cup {IDot, DotAbove, Newline, Nul}

\* ord(c)
OrdTable ==
  [c \in Chars |->
     IF c = IDot THEN 304
     ELSE IF c = Newline THEN 10
     ELSE IF c = Nul THEN 0
     ELSE IF c = DotAbove THEN 775
     ELSE 31 + (CHOOSE i \in 1..Len(Printable) : Printable[i] = c)]

Ord(c) == OrdTable[c]

\* str.lower() on one character: a sequence, because U+0130 lowers to two.
LowerTable ==
  [c \in Chars |->
     IF c = IDot THEN << "i", DotAbove >>
     ELSE IF Ord(c) >= 65 /\ Ord(c) <= 90 THEN << Printable[Ord(c) + 32 - 31] >>
     ELSE << c >>]

RECURSIVE Concat(_)
\* "".join(parts), by halves to keep the recursion shallow.
Concat(parts) ==
  IF parts = << >> THEN << >>
  ELSE IF Len(parts) = 1 THEN parts[1]
  ELSE LET h == Len(parts) \div 2
       IN  Concat(SubSeq(parts, 1, h)) \o Concat(SubSeq(parts, h + 1, Len(parts)))

\* str.lower()
Lower(s) == Concat([i \in 1..Len(s) |-> LowerTable[s[i]]])

RECURSIVE StrLess(_, _)
\* s < t for two str: lexicographic by code point.
StrLess(s, t) ==
  IF t = << >> THEN FALSE
  ELSE IF s = << >> THEN TRUE
  ELSE IF Ord(Head(s)) < Ord(Head(t)) THEN TRUE
  ELSE IF Ord(Head(s)) > Ord(Head(t)) THEN FALSE
  ELSE StrLess(Tail(s), Tail(t))

\* s[a:b] with 0-based a, b as in Python (0 <= a), clamped to the length.
Slice(s, a, b) ==
  LET hi == IF b > Len(s) THEN Len(s) ELSE b
  IN  IF a >= hi THEN << >> ELSE SubSeq(s, a + 1, hi)

\* s[a:]
SliceFrom(s, a) == Slice(s, a, Len(s))

\* s.startswith(p) at 0-based offset i
MatchAt(s, p, i) == i + Len(p) <= Len(s) /\ SubSeq(s, i + 1, i + Len(p)) = p

\* s.find(p, start): the lowest 0-based index >= start, or -1.
Find(s, p, start) ==
  LET hits == {i \in start..(Len(s) - Len(p)) : MatchAt(s, p, i)}
  IN  IF hits = {} THEN -1 ELSE CHOOSE i \in hits : \A j \in hits : i <= j

\* p in s
Contains(s, p) == Find(s, p, 0) # -1

\* s.endswith(p)
EndsWith(s, p) == Len(p) <= Len(s) /\ SubSeq(s, Len(s) - Len(p) + 1, Len(s)) = p

\* not s.strip(): empty, or white space only (space and line feed here).
IsBlank(s) == \A i \in 1..Len(s) : s[i] \in {" ", Newline}

RECURSIVE Join(_, _)
\* sep.join(parts)
Join(parts, sep) ==
  IF parts = << >> THEN << >>
  ELSE IF Len(parts) = 1 THEN parts[1]
  ELSE parts[1] \o sep \o Join(Tail(parts), sep)

RECURSIVE SetToSeq(_)
\* Some enumeration of a finite set (the order a directory scan yields).
SetToSeq(S) ==
  IF S = {} THEN << >>
  ELSE LET x == CHOOSE x \in S : TRUE IN << x >> \o SetToSeq(S \ {x})

(* ------------------------------------------------------------------ *)
(* Names used by both applications                                      *)
(* ------------------------------------------------------------------ *)

DotIpynb == << ".", "i", "p", "y", "n", "b" >>
CheckpointMarker ==
  << ".", "i", "p", "y", "n", "b", "_", "c", "h", "e", "c", "k", "p", "o", "i", "n", "t", "s" >>
Slash == << "/" >>

NameA == << "a" >> \o DotIpynb
NameB == << "B" >> \o DotIpynb
NameC == << "c" >> \o DotIpynb
NameNotes == << "n", "o", "t", "e", "s", ".", "t", "x", "t" >>
NameCkpt == << "a", "-", "c", "h", "e", "c", "k", "p", "o", "i", "n", "t" >> \o DotIpynb
NameSub == << "s", "u", "b" >>
NameDeep == << "d", "e", "e", "p" >>
NameNotebooks == << "n", "o", "t", "e", "b", "o", "o", "k", "s" >>

(* ------------------------------------------------------------------ *)
(* deploy_app/streamlit_app.py: the viewer                              *)
(* ------------------------------------------------------------------ *)

\* The names bound at module level in deploy_app/streamlit_app.py: its
\* imports (lines 3-8) and its top-level functions. HTMLExporter is imported
\* only inside convert_ipynb_to_html and fetch_and_convert_from_github
\* (lines 96, 134), so it is a local name of those two functions.
DeployModuleGlobals ==
  { "json", "Path", "List", "Tuple", "Dict", "st", "requests",
    "app_root", "main", "convert_ipynb_to_html", "list_ipynb_from_github",
    "fetch_and_convert_from_github", "_github_headers", "_export_notebook_html",
    "_html_escape", "inject_custom_css" }

\* The names assigned inside _export_notebook_html (its locals).
ExportLocals == { "exp", "body", "_", "cells_html", "cell", "ctype", "src" }

\* Name lookup inside _export_notebook_html: locals, then module globals
\* (no builtin is called HTMLExporter). FALSE means NameError.
ExportNameBound(name) == name \in ExportLocals \cup DeployModuleGlobals

\* The secret store: st.secrets.get("GITHUB_TOKEN") raises (no secrets
\* file), or returns None, "" or a token.
Secrets == { "raises", "none", "empty", "token" }

HAuth == "Authorization"
HAccept == "Accept"
HApiVersion == "X-GitHub-Api-Version"

\* _github_headers with the token left out of raw requests.
GithubHeaders_NoAuthOnRaw(secret, raw) ==
  (IF secret = "token" /\ ~raw THEN { HAuth } ELSE {})
    \cup (IF ~raw THEN { HAccept, HApiVersion } ELSE {})

\* _github_headers(raw): the names of the headers it returns. The lookup
\* of the secret is inside try/except (token = None when it raises); the
\* token is added when truthy, before and independently of the raw test.
GithubHeaders(secret, raw) ==
  LET token == IF secret = "raises" THEN "none" ELSE secret
      auth == IF token = "token" THEN { HAuth } ELSE {}
      api == IF ~raw THEN { HAccept, HApiVersion } ELSE {}
  IN  auth \cup api

\* One entry of a directory listing of the contents API.
Item(type, name, path) == [type |-> type, name |-> name, path |-> path]

\* item.get("type") == "file" and item.get("name", "").endswith(".ipynb")
IsNotebookItem(it) == it.type = "file" /\ EndsWith(it.name, DotIpynb)

RECURSIVE PathsWhere(_, _)
\* [item["path"] for item in items if <test>], test being "notebook" or "dir"
PathsWhere(items, test) ==
  IF items = << >> THEN << >>
  ELSE LET it == Head(items)
           keep == IF test = "dir" THEN it.type = "dir" ELSE IsNotebookItem(it)
       IN  (IF keep THEN << it.path >> ELSE << >>) \o PathsWhere(Tail(items), test)

\* A value with its sort key.
Keyed(key, val) == [key |-> key, val |-> val]

RECURSIVE InsertByKey(_, _)
\* Insert x into the sorted s after every element whose key is not greater.
InsertByKey(x, s) ==
  IF s = << >> THEN << x >>
  ELSE IF StrLess(x.key, Head(s).key) THEN << x >> \o s
  ELSE << Head(s) >> \o InsertByKey(x, Tail(s))

RECURSIVE SortByKey(_)
\* list.sort(key=...) / sorted(..., key=...) on keyed values: stable.
SortByKey(s) ==
  IF s = << >> THEN << >>
  ELSE InsertByKey(s[Len(s)], SortByKey(SubSeq(s, 1, Len(s) - 1)))

\* The values of a sequence of keyed values.
Vals(s) == [i \in 1..Len(s) |-> s[i].val]

\* files.sort(key=lambda s: s.lower())
SortLower(files) ==
  Vals(SortByKey([i \in 1..Len(files) |-> Keyed(Lower(files[i]), files[i])]))

\* Responses of requests.get: an HTTP response, or no response at all
\* (requests raises Timeout / ConnectionError).
Resp200(items) == [kind |-> "http", status |-> 200, items |-> items]
RespError(status) == [kind |-> "http", status |-> status, items |-> << >>]
RespTimeout == [kind |-> "timeout", status |-> 0, items |-> << >>]

\* A request as sent: which host, for what, with which header names.
Request(kind, target, headers) == [kind |-> kind, target |-> target, headers |-> headers]

RECURSIVE ListSubdirs(_, _, _, _, _)
\* The loop of lines 122-127 over dirs: one API request per subdirectory;
\* a 200 extends files, any other status is skipped, a timeout raises.
ListSubdirs(dirs, files, sent, secret, subs) ==
  IF dirs = << >> THEN [raised |-> FALSE, files |-> files, sent |-> sent]
  ELSE LET d == Head(dirs)
           r == subs[d]
           sent2 == Append(sent, Request("api", d, GithubHeaders(secret, FALSE)))
       IN  IF r.kind = "timeout" THEN [raised |-> TRUE, files |-> files, sent |-> sent2]
           ELSE ListSubdirs(Tail(dirs),
                            IF r.status = 200
                              THEN files \o PathsWhere(r.items, "notebook")
                              ELSE files,
                            sent2, secret, subs)

\* list_ipynb_from_github(owner, repo, branch, directory), api holding the
\* responses of the contents API: api.top for directory, api.subs[d] for d.
\* raised: an exception left the function. On a non-200 status the second
\* element of the tuple is the message (status kept), not a list.
ListIpynbFromGithub(secret, directory, api) ==
  LET sent1 == << Request("api", directory, GithubHeaders(secret, FALSE)) >>
      resp == api.top
  IN  IF resp.kind = "timeout"
        THEN [raised |-> TRUE, ok |-> FALSE, files |-> << >>, status |-> 0, sent |-> sent1]
      ELSE IF resp.status # 200
        THEN [raised |-> FALSE, ok |-> FALSE, files |-> << >>, status |-> resp.status,
              sent |-> sent1]
      ELSE LET files == PathsWhere(resp.items, "notebook")
               dirs == PathsWhere(resp.items, "dir")
               sub == ListSubdirs(dirs, files, sent1, secret, api.subs)
           IN  IF sub.raised
                 THEN [raised |-> TRUE, ok |-> FALSE, files |-> << >>, status |-> 200,
                       sent |-> sub.sent]
                 ELSE [raised |-> FALSE, ok |-> TRUE, files |-> SortLower(sub.files),
                       status |-> 200, sent |-> sub.sent]

(* ---- the local scan of main (lines 55-61) ---- *)

\* The separator of str(path): "/" on POSIX, a backslash on Windows.
Sep(platform) == IF platform = "nt" THEN << Backslash >> ELSE << "/" >>

\* str(p) for a path given by its parts
PathStr(parts, platform) == Join(parts, Sep(platform))

\* The key by which pathlib orders paths (PurePath.__lt__): the list of the
\* parts, case-folded on Windows and as written on POSIX.
PathOrderKey(parts, platform) ==
  Join([i \in 1..Len(parts) |-> IF platform = "nt" THEN Lower(parts[i]) ELSE parts[i]],
       << Nul >>)

\* rglob("*.ipynb"): the pattern is matched on the last part, ignoring case
\* on Windows only.
MatchesIpynb(parts, platform) ==
  LET name == parts[Len(parts)]
  IN  EndsWith(IF platform = "nt" THEN Lower(name) ELSE name, DotIpynb)

\* The directory deploy_app/notebooks, by its parts.
DeployRoot == << << "d", "e", "p", "l", "o", "y", "_", "a", "p", "p" >>, NameNotebooks >>

\* sorted(notebooks_dir.rglob("*.ipynb")): full paths (by parts), in
\* pathlib's order. tree is the set of the files below root, each by its
\* parts relative to root.
SortedRglob(root, tree, platform) ==
  LET found == SetToSeq({root \o rel : rel \in {r \in tree : MatchesIpynb(r, platform)}})
  IN  Vals(SortByKey([i \in 1..Len(found) |->
                        Keyed(PathOrderKey(found[i], platform), found[i])]))

\* ".ipynb_checkpoints" not in str(p)
NotCheckpoint(p, platform) == ~Contains(PathStr(p, platform), CheckpointMarker)

\* str(p.relative_to(root))
RelativeStr(p, root, platform) == PathStr(SubSeq(p, Len(root) + 1, Len(p)), platform)

\* local_files of main, lines 56-60.
LocalScan(tree, exists, platform) ==
  IF ~exists THEN << >>
  ELSE LET all == SortedRglob(DeployRoot, tree, platform)
           kept == SelectSeq(all, LAMBDA p : NotCheckpoint(p, platform))
       IN  [i \in 1..Len(kept) |-> RelativeStr(kept[i], DeployRoot, platform)]

\* lines 63-65: files = [f for f in files if q in f.lower()] when query
ApplyQuery(files, query) ==
  IF query = << >> THEN files
  ELSE SelectSeq(files, LAMBDA f : Contains(Lower(f), Lower(query)))

(* ---- export (lines 178-228) ---- *)

\* text.replace(c, rep) for a one-character c
Replace(text, c, rep) ==
  Concat([i \in 1..Len(text) |-> IF text[i] = c THEN rep ELSE << text[i] >>])

\* _html_escape(text), lines 223-228: "&" first, then "<", then ">".
HtmlEscape(text) ==
  LET AmpEntity ==
        << "&", "a", "m", "p", ";" >>
      LtEntity ==
        << "&", "l", "t", ";" >>
      GtEntity ==
        << "&", "g", "t", ";" >>
  IN  Replace(Replace(Replace(text, "&", AmpEntity), "<", LtEntity), ">", GtEntity)

\* The literal that opens the minimal renderer's output (line 216), the
\* style sheet inside it shortened to its first declaration.
MinimalHead ==
  << "<", "!", "d", "o", "c", "t", "y", "p", "e", " ", "h", "t", "m", "l", ">", "<",
     "m", "e", "t", "a", " ", "c", "h", "a", "r", "s", "e", "t", "=", "'", "u", "t",
     "f", "-", "8", "'", ">", "<", "s", "t", "y", "l", "e", ">", "b", "o", "d", "y",
     "{", "f", "o", "n", "t", "-", "f", "a", "m", "i", "l", "y", ":", "s", "y", "s",
     "t", "e", "m", "-", "u", "i", "}", "<", "/", "s", "t", "y", "l", "e", ">" >>
\* line 220
GiveUpHtml ==
  << "<", "p", ">", "I", "m", "p", "o", "s", "s", "i", "b", "l", "e", " ", "d", "e",
     " ", "c", "o", "n", "v", "e", "r", "t", "i", "r", " ", "l", "e", " ", "n", "o",
     "t", "e", "b", "o", "o", "k", " ", "e", "n", " ", "H", "T", "M", "L", ".", "<",
     "/", "p", ">" >>

\* A cell of a notebook: its cell_type and its source. text = FALSE stands
\* for a source that is no text and no list of text (a number in the JSON),
\* on which "".join raises TypeError.
Cell(type, source, text) == [cell_type |-> type, source |-> source, text |-> text]

\* lines 207-214 for one cell
CellHtml(cell) ==
  LET MdOpen ==
        << "<", "d", "i", "v", " ", "c", "l", "a", "s", "s", "=", DQuote, "m", "d", "-", "c",
           "e", "l", "l", DQuote, ">", "<", "p", "r", "e", ">" >>
      MdClose ==
        << "<", "/", "p", "r", "e", ">", "<", "/", "d", "i", "v", ">" >>
      CodeOpen ==
        << "<", "d", "i", "v", " ", "c", "l", "a", "s", "s", "=", DQuote, "c", "o", "d", "e",
           "-", "c", "e", "l", "l", DQuote, ">", "<", "p", "r", "e", ">", "<", "c", "o", "d",
           "e", ">" >>
      CodeClose ==
        << "<", "/", "c", "o", "d", "e", ">", "<", "/", "p", "r", "e", ">", "<", "/", "d",
           "i", "v", ">" >>
      RawOpen ==
        << "<", "d", "i", "v", " ", "c", "l", "a", "s", "s", "=", DQuote, "r", "a", "w", "-",
           "c", "e", "l", "l", DQuote, ">", "<", "p", "r", "e", ">" >>
  IN  IF cell.cell_type = "markdown" THEN MdOpen \o HtmlEscape(cell.source) \o MdClose
      ELSE IF cell.cell_type = "code" THEN CodeOpen \o HtmlEscape(cell.source) \o CodeClose
      ELSE RawOpen \o HtmlEscape(cell.source) \o MdClose

TplClassic ==
  << "c", "l", "a", "s", "s", "i", "c" >>
TplBasic ==
  << "b", "a", "s", "i", "c" >>
TplLab ==
  << "l", "a", "b" >>

LibraryHtml(template, node) ==
  LET \* What nbconvert's HTMLExporter returns for a node under a template it can
      \* render: a whole document with a head, the outputs of executed code
      \* cells included. (The library's output, reduced to what the viewer's
      \* code looks at.)
      LibOpen ==
        << "<", "!", "D", "O", "C", "T", "Y", "P", "E", " ", "h", "t", "m", "l", ">",
           Newline, "<", "h", "t", "m", "l", ">", Newline, "<", "h", "e", "a", "d", ">", "<",
           "m", "e", "t", "a", " ", "c", "h", "a", "r", "s", "e", "t", "=", DQuote, "u", "t",
           "f", "-", "8", DQuote, " ", "/", ">", "<", "/", "h", "e", "a", "d", ">", Newline,
           "<", "b", "o", "d", "y", " ", "c", "l", "a", "s", "s", "=", DQuote >>
      LibMid ==
        << DQuote, ">" >>
      LibClose ==
        << "<", "/", "b", "o", "d", "y", ">", Newline, "<", "/", "h", "t", "m", "l", ">" >>
      OutputBlock ==
        << "<", "d", "i", "v", " ", "c", "l", "a", "s", "s", "=", DQuote, "o", "u", "t", "p",
           "u", "t", DQuote, ">", "1", "<", "/", "d", "i", "v", ">" >>
  IN  LibOpen \o template \o LibMid
        \o Concat([i \in 1..Len(node.cells) |->
                     HtmlEscape(node.cells[i].source)
                       \o (IF node.cells[i].cell_type = "code" /\ node.executed
                             THEN OutputBlock ELSE << >>)])
        \o LibClose

\* One try block of lines 184-201: HTMLExporter(template_name=...) and
\* from_notebook_node. The name HTMLExporter is looked up in the scope of
\* _export_notebook_html; unbound, the call raises NameError, which the
\* except clause swallows like any failure of the library. can: nbconvert
\* has the template and renders the node with it.
TryTemplate(template, node, can) ==
  IF ExportNameBound("HTMLExporter") /\ can
    THEN [ok |-> TRUE, body |-> LibraryHtml(template, node)]
    ELSE [ok |-> FALSE, body |-> << >>]

\* lines 204-220: the minimal renderer, and the message when it raises.
MinimalRender(node) ==
  IF \E i \in 1..Len(node.cells) : ~node.cells[i].text
    THEN [renderer |-> "giveup", html |-> GiveUpHtml]
    ELSE [renderer |-> "minimal",
          html |-> MinimalHead \o Concat([i \in 1..Len(node.cells) |-> CellHtml(node.cells[i])])]

\* _export_notebook_html(node): the renderer that produced the result, and
\* the result. lib.classic / lib.basic: what nbconvert could render.
ExportNotebookHtml(node, lib) ==
  LET classic == TryTemplate(TplClassic, node, lib.classic)
      basic == TryTemplate(TplBasic, node, lib.basic)
  IN  IF classic.ok THEN [renderer |-> "classic", html |-> classic.body]
      ELSE IF basic.ok THEN [renderer |-> "basic", html |-> basic.body]
      ELSE MinimalRender(node)

\* The node nbformat returns for a notebook: its cells, not executed.
Node(cells) == [cells |-> cells, executed |-> FALSE]

\* lines 100-109 and 143-151: ExecutePreprocessor.preprocess inside
\* try/except Exception/pass. The node is executed when it succeeds and
\* left as read when it raises.
ExecuteGuarded(node, execute, execFails) ==
  IF execute /\ ~execFails THEN [node EXCEPT !.executed = TRUE] ELSE node

\* convert_ipynb_to_html(nb_path, execute). nb: what nbformat.read finds
\* at the path (valid: it parses as a version-4 notebook; cells).
\* nbformat.read is outside any try: raised when it fails.
ConvertIpynbToHtml(nb, execute, execFails, lib) ==
  IF ~nb.valid THEN [raised |-> TRUE, renderer |-> "none", html |-> << >>]
  ELSE LET out == ExportNotebookHtml(ExecuteGuarded(Node(nb.cells), execute, execFails), lib)
       IN  [raised |-> FALSE, renderer |-> out.renderer, html |-> out.html]

\* fetch_and_convert_from_github(owner, repo, branch, path, execute).
\* resp: the response of the raw host; resp.items is the notebook it
\* serves. requests.get is outside the try (a timeout raises); a status
\* other than 200 and an exception of nbformat.reads return ok = False.
FetchAndConvertFromGithub(secret, path, resp, execute, execFails, lib) ==
  LET sent == << Request("raw", path, GithubHeaders(secret, TRUE)) >>
      none == [raised |-> FALSE, ok |-> FALSE, renderer |-> "none", html |-> << >>,
               message |-> "none", filename |-> path, sent |-> sent]
  IN  IF resp.kind = "timeout" THEN [none EXCEPT !.raised = TRUE]
      ELSE IF resp.status # 200 THEN [none EXCEPT !.message = "Telechargement echoue"]
      ELSE IF ~resp.items.valid THEN [none EXCEPT !.message = "Erreur conversion"]
      ELSE LET out == ExportNotebookHtml(
                        ExecuteGuarded(Node(resp.items.cells), execute, execFails), lib)
           IN  [none EXCEPT !.ok = TRUE, !.renderer = out.renderer, !.html = out.html]

(* ---- CSS injection (lines 231-253) ---- *)

StyleOpen ==
  << "<", "s", "t", "y", "l", "e", ">", Newline >>
StyleClose ==
  << Newline, "<", "/", "s", "t", "y", "l", "e", ">" >>
HeadTag ==
  << "<", "h", "e", "a", "d", ">" >>
HeadEnd ==
  << "<", "/", "h", "e", "a", "d", ">" >>
HtmlOpen ==
  << "<", "h", "t", "m", "l" >>

\* inject_custom_css(html, css). The offsets are found in lower
\* (html.lower()) and applied to html.
InjectCustomCss(html, css) ==
  IF IsBlank(css) THEN html
  ELSE LET style_tag == StyleOpen \o css \o StyleClose
           lower == Lower(html)
           head_idx == Find(lower, HeadTag, 0)
           html_idx == Find(lower, HtmlOpen, 0)
           end_tag == IF html_idx # -1 THEN Find(lower, << ">" >>, html_idx) ELSE -1
       IN  IF head_idx # -1
             THEN Slice(html, 0, head_idx + Len(HeadTag)) \o style_tag
                    \o SliceFrom(html, head_idx + Len(HeadTag))
           ELSE IF html_idx # -1 /\ end_tag # -1
             THEN Slice(html, 0, end_tag + 1) \o HeadTag \o style_tag \o HeadEnd
                    \o SliceFrom(html, end_tag + 1)
           ELSE style_tag \o html

(* ---- main (lines 15-91) ---- *)

\* The default of the "Dossier" input (line 45).
DirNotebooks == NameNotebooks

\* directory/name
Under(dir, name) == dir \o Slash \o name

CheckpointDirPath == Under(DirNotebooks, CheckpointMarker)
SubDirPath == Under(DirNotebooks, NameSub)

\* Entries the contents API may list for the repository.
ItemA == Item("file", NameA, Under(DirNotebooks, NameA))
ItemB == Item("file", NameB, Under(DirNotebooks, NameB))
ItemNotes == Item("file", NameNotes, Under(DirNotebooks, NameNotes))
ItemCheckpointDir == Item("dir", CheckpointMarker, CheckpointDirPath)
ItemSubDir == Item("dir", NameSub, SubDirPath)
ItemCheckpointCopy == Item("file", NameCkpt, Under(CheckpointDirPath, NameCkpt))
ItemC == Item("file", NameC, Under(SubDirPath, NameC))
ItemDeepDir == Item("dir", NameDeep, Under(SubDirPath, NameDeep))

ApiEnvs ==
  LET \* The listings of the top directory the model draws from.
      TopListings ==
        { << >>,
          << ItemNotes >>,
          << ItemB, ItemA >>,
          << ItemCheckpointDir, ItemA >>,
          << ItemB, ItemSubDir, ItemNotes >>,
          << ItemCheckpointDir, ItemSubDir, ItemA >> }
      TopResponses == { RespTimeout, RespError(404) } \cup { Resp200(l) : l \in TopListings }
      \* The responses for the two subdirectories.
      SubResponses ==
        { [d \in { CheckpointDirPath, SubDirPath } |->
             IF d = CheckpointDirPath THEN c ELSE u] :
            c \in { Resp200(<< ItemCheckpointCopy >>), RespError(404), RespTimeout },
            u \in { Resp200(<< ItemC, ItemNotes, ItemDeepDir >>), RespError(404), RespTimeout } }
  IN  { [top |-> t, subs |-> u] : t \in TopResponses, u \in SubResponses }

\* The files a local notebooks directory may hold, by their parts.
LocalUniverse ==
  { << NameA >>, << NameB >>, << NameNotes >>, << CheckpointMarker, NameCkpt >>,
    << NameSub, NameC >> }

Platforms == { "posix", "nt" }

\* Notebooks as nbformat reads them.
DocGood ==
  [valid |-> TRUE,
   cells |-> << Cell("markdown", << "#", " ", "T" >>, TRUE),
                Cell("code", << "a", "<", "b" >>, TRUE) >>]
DocOdd ==
  [valid |-> TRUE,
   cells |-> << Cell("raw", << "&" >>, TRUE), Cell("code", << >>, FALSE) >>]
DocInvalid == [valid |-> FALSE, cells |-> << >>]
Docs == { DocGood, DocOdd, DocInvalid }

Libs == [classic : BOOLEAN, basic : BOOLEAN]

CssSample == << "p", "{", "}" >>
CssTexts == { << >>, << " ", Newline >>, CssSample }
Queries == { << >>, << "A" >> }

\* The responses of the raw host for the selected notebook.
RawResponses == { RespTimeout, RespError(404) } \cup { Resp200(d) : d \in Docs }

\* Path(name).stem: the last part of the path without its last suffix.
Stem(path) ==
  LET slashes == {i \in 1..Len(path) : path[i] = "/" \/ path[i] = Backslash}
      from == IF slashes = {} THEN 1 ELSE 1 + CHOOSE i \in slashes : \A j \in slashes : j <= i
      name == SubSeq(path, from, Len(path))
      dots == {i \in 2..Len(name) : name[i] = "."}
  IN  IF dots = {} THEN name
      ELSE SubSeq(name, 1, (CHOOSE i \in dots : \A j \in dots : j <= i) - 1)

DotHtml == << ".", "h", "t", "m", "l" >>

\* What the environment of a run that did not reach the local scan, or
\* the conversion, is recorded as.
NoLocal == [tree |-> {}, exists |-> FALSE, platform |-> "posix"]
NoConv ==
  [execute |-> FALSE, execFails |-> FALSE, lib |-> [classic |-> FALSE, basic |-> FALSE],
   doc |-> "none", fetch |-> "none", apply_css |-> FALSE, css |-> << >>]

\* The page before a script run.
NoView ==
  [outcome |-> "none", used_source |-> "none", listed |-> "none", listed_files |-> << >>,
   resolved |-> << >>, files |-> << >>, caption |-> "none", local_scans |-> 0,
   read_from |-> "none", selected |-> << >>, sent |-> << >>, renderer |-> "none",
   base_html |-> << >>, html |-> << >>, message |-> "none", out_name |-> << >>,
   secret |-> "none", query |-> << >>, clicked |-> FALSE, local |-> NoLocal, conv |-> NoConv]

\* How a response of the raw host, or a notebook on disk, is recorded.
DocKind(doc) == IF doc.valid THEN "valid" ELSE "invalid"
FetchKind(resp) ==
  IF resp.kind = "timeout" THEN "timeout" ELSE IF resp.status # 200 THEN "error" ELSE "ok"

\* Lines 48-61 with the fallback taken on a failed listing only.
Resolve_OnlyOnFailure(ok, files, local) ==
  IF ~ok
    THEN [used_source |-> "local", files |-> local, local_scans |-> 1]
    ELSE [used_source |-> "github", files |-> files, local_scans |-> 0]

\* Lines 48-61 of main: the remote list when the listing succeeded and is
\* not empty, else the local scan, made once.
Resolve(ok, files, local) ==
  IF (~ok) \/ files = << >>
    THEN [used_source |-> "local", files |-> local, local_scans |-> 1]
    ELSE [used_source |-> "github", files |-> files, local_scans |-> 0]

\* Line 71: the caption names the source used.
Caption(used_source) ==
  IF used_source = "github" THEN "GitHub" ELSE "Local deploy_app/notebooks"

\* One run of main(), from the listing to the rendered page. The inputs:
\* the secret store, the responses of the contents API, the local
\* directory, the widgets (query, button, selectbox index, execute, CSS),
\* the response of the raw host or the notebook on disk, whether execution
\* fails, what nbconvert can render.
MainRun(secret, api, tree, exists, platform, query, clicked, sel, execute, execFails, lib, doc, raw, apply_css, css) ==
  LET listed == ListIpynbFromGithub(secret, DirNotebooks, api)
      res == Resolve(listed.ok, listed.files, LocalScan(tree, exists, platform))
      used == res.used_source
      fallback == used = "local"
      resolved == res.files
      files == ApplyQuery(resolved, query)
      css_text == IF apply_css THEN css ELSE << >>
      base ==
        [NoView EXCEPT !.secret = secret, !.query = query, !.sent = listed.sent,
                       !.listed = IF listed.raised THEN "raised"
                                  ELSE IF listed.ok THEN "ok" ELSE "failed"]
      resolvedView ==
        [base EXCEPT !.used_source = used, !.listed_files = listed.files,
                     !.resolved = resolved, !.files = files,
                     !.local_scans = res.local_scans,
                     !.local = IF fallback
                                 THEN [tree |-> tree, exists |-> exists, platform |-> platform]
                                 ELSE NoLocal]
      shown ==
        [resolvedView EXCEPT !.caption = Caption(used),
                             !.selected = files[sel], !.clicked = clicked]
      conv(fetch, d) ==
        [execute |-> execute, execFails |-> execute /\ execFails, lib |-> lib, doc |-> d,
         fetch |-> fetch, apply_css |-> apply_css, css |-> css_text]
      styled(h) == IF apply_css THEN InjectCustomCss(h, css_text) ELSE h
  IN  IF listed.raised THEN [base EXCEPT !.outcome = "exception"]
      ELSE IF files = << >> THEN [resolvedView EXCEPT !.outcome = "warning"]
      ELSE IF ~clicked THEN [shown EXCEPT !.outcome = "listed"]
      ELSE IF used = "github"
        THEN LET fc == FetchAndConvertFromGithub(secret, files[sel], raw, execute,
                                                 execFails, lib)
                 v == [shown EXCEPT !.read_from = "github", !.sent = listed.sent \o fc.sent,
                                    !.conv = conv(FetchKind(raw),
                                                  IF FetchKind(raw) = "ok"
                                                    THEN DocKind(raw.items) ELSE "none")]
             IN  IF fc.raised THEN [v EXCEPT !.outcome = "exception"]
                 ELSE IF ~fc.ok THEN [v EXCEPT !.outcome = "error", !.message = fc.message]
                 ELSE [v EXCEPT !.outcome = "html", !.renderer = fc.renderer,
                                !.base_html = fc.html, !.html = styled(fc.html),
                                !.out_name = Stem(fc.filename) \o DotHtml]
        ELSE LET cv == ConvertIpynbToHtml(doc, execute, execFails, lib)
                 v == [shown EXCEPT !.read_from = "local",
                                    !.conv = conv("none", DocKind(doc))]
             IN  IF cv.raised THEN [v EXCEPT !.outcome = "exception"]
                 ELSE [v EXCEPT !.outcome = "html", !.renderer = cv.renderer,
                                !.base_html = cv.html, !.html = styled(cv.html),
                                !.out_name = Stem(files[sel]) \o DotHtml]

ViewerInit == view = NoView

\* The list the selectbox of line 72 offers in such a run.
Offered(secret, api, tree, exists, platform, query) ==
  LET listed == ListIpynbFromGithub(secret, DirNotebooks, api)
  IN  IF listed.raised THEN << >>
      ELSE ApplyQuery(Resolve(listed.ok, listed.files,
                              LocalScan(tree, exists, platform)).files, query)

\* The indices the user can select: those of the list, or 1 when no
\* selectbox is shown.
Selectable(files) == IF files = << >> THEN { 1 } ELSE 1..Len(files)

\* The responses recorded for the subdirectories when none is listed.
NoSubs == [d \in { CheckpointDirPath, SubDirPath } |-> RespError(404)]

\* A script run that explores the listing: every secret, API response,
\* query and, when the run falls back, every local directory and platform;
\* the conversion of the selected notebook in its plainest form.
MainResolve ==
  /\ view.outcome = "none"
  /\ UNCHANGED << tabVars, templateVars, cssVars >>
  /\ \E secret \in Secrets, api \in ApiEnvs, query \in Queries, clicked \in BOOLEAN :
       /\ api.subs = NoSubs \/ PathsWhere(api.top.items, "dir") # << >>
       /\ LET listed == ListIpynbFromGithub(secret, DirNotebooks, api)
              local == (~listed.raised) /\ ((~listed.ok) \/ listed.files = << >>)
          IN  \E tree \in IF local THEN SUBSET LocalUniverse ELSE { {} },
                 exists \in IF local THEN BOOLEAN ELSE { FALSE },
                 platform \in IF local THEN Platforms ELSE { "posix" } :
                /\ exists \/ tree = {}
                /\ \E sel \in Selectable(Offered(secret, api, tree, exists, platform, query)) :
                     view' = MainRun(secret, api, tree, exists, platform, query, clicked,
                                     sel, FALSE, FALSE, [classic |-> TRUE, basic |-> TRUE],
                                     DocGood, Resp200(DocGood), TRUE, CssSample)

\* Two listings for the runs that explore the conversion: one the API
\* serves, one it refuses (the local directory is then used).
ConvertApis ==
  { [top |-> t, subs |-> u] :
      t \in { Resp200(<< ItemB, ItemA >>), RespError(404) },
      u \in { NoSubs } }

ConvertTree == { << NameA >>, << NameB >>, << CheckpointMarker, NameCkpt >> }

\* A script run with the button clicked that explores the conversion:
\* every secret, response of the raw host, notebook, execution outcome,
\* renderer availability and CSS choice.
MainConvert ==
  /\ view.outcome = "none"
  /\ UNCHANGED << tabVars, templateVars, cssVars >>
  /\ \E secret \in Secrets, api \in ConvertApis, execute \in BOOLEAN, execFails \in BOOLEAN,
        lib \in Libs, doc \in Docs, raw \in RawResponses, apply_css \in BOOLEAN,
        css \in CssTexts :
       /\ execute \/ ~execFails
       /\ apply_css \/ css = << >>
       /\ IF api.top.status = 200 THEN doc = DocGood ELSE raw = Resp200(DocGood)
       /\ \E sel \in Selectable(Offered(secret, api, ConvertTree, TRUE, "posix", << >>)) :
               view' = MainRun(secret, api, ConvertTree, TRUE, "posix", << >>, TRUE, sel,
                            execute, execFails, lib, doc, raw, apply_css, css)

\* Streamlit reruns the script from the top on the next interaction: the
\* page of the last run is discarded.
Rerun ==
  /\ view.outcome # "none"
  /\ view' = NoView
  /\ UNCHANGED << tabVars, templateVars, cssVars >>

ViewerNext == MainResolve \/ MainConvert \/ Rerun

(* ------------------------------------------------------------------ *)
(* template_ui/streamlit_app.py: the Notebooks tab (lines 151-243)      *)
(* ------------------------------------------------------------------ *)

\* The largest modification time a file is given, and the number of
\* times the conversion may be invoked.
MaxMtime == 2
MaxConversions == 2

\* The notebooks directory of the tab, by its parts.
TabRoot == << NameNotebooks >>

\* a.ipynb is edited, touched and deleted; B.ipynb, notes.txt and the
\* checkpoint copy of a.ipynb stay as they are.
EditedFile == << NameA >>

RECURSIVE SourceChars(_)
\* The size of a notebook file, counted as the characters of its sources.
SourceChars(cells) ==
  IF cells = << >> THEN 0 ELSE Len(Head(cells).source) + SourceChars(Tail(cells))

\* os.stat of a file holding doc, last modified at mtime.
FileState(doc, mtime) ==
  [present |-> TRUE, mtime |-> mtime, size |-> SourceChars(doc.cells), doc |-> doc]
Missing == [present |-> FALSE, mtime |-> 0, size |-> 0, doc |-> DocInvalid]

FileStates ==
  LET \* What a.ipynb may hold: DocGood, an edit of it of the same size, and a
      \* shorter notebook.
      DocEdited ==
        [valid |-> TRUE,
         cells |-> << Cell("markdown", << "#", " ", "U" >>, TRUE),
                      Cell("code", << "a", "<", "b" >>, TRUE) >>]
      DocShort == [valid |-> TRUE, cells |-> << Cell("code", << "x" >>, TRUE) >>]
      TabDocs == { DocGood, DocEdited, DocShort }
  IN  { Missing } \cup { FileState(d, m) : d \in TabDocs, m \in 1..MaxMtime }

\* The file behind a path of the listing.
StatOf(d, rel) == IF rel = EditedFile THEN d ELSE FileState(DocGood, 1)

\* The files below the notebooks directory.
TabTree(d) ==
  LET FixedFile == << NameB >>
      TabExtras == { << NameNotes >>, << CheckpointMarker, NameCkpt >> }
  IN  (IF d.present THEN { EditedFile } ELSE {}) \cup { FixedFile } \cup TabExtras

\* _list_notebooks(notebooks_dir), lines 161-165: the paths rglob finds,
\* less those whose string contains the checkpoint marker, sorted by the
\* lower-cased string. Full paths, by their parts.
ListNotebooks(root, tree, platform) ==
  LET found == SetToSeq({root \o rel : rel \in {r \in tree : MatchesIpynb(r, platform)}})
      kept == SelectSeq(found, LAMBDA p : NotCheckpoint(p, platform))
  IN  Vals(SortByKey([i \in 1..Len(kept) |->
                        Keyed(Lower(PathStr(kept[i], platform)), kept[i])]))

RECURSIVE Digits(_)
\* str(n) for n >= 0
Digits(n) ==
  IF n < 10 THEN << Printable[17 + n] >>
  ELSE Digits(n \div 10) \o << Printable[17 + (n % 10)] >>

\* str(b) for a bool
BoolStr(b) == IF b THEN << "T", "r", "u", "e" >> ELSE << "F", "a", "l", "s", "e" >>

Colon == << ":" >>
MissingWord == << "m", "i", "s", "s", "i", "n", "g" >>

\* hashlib.sha256(raw).hexdigest(): the digest of raw, taken as free of
\* collisions.
Sha256(raw) == [sha256 |-> raw]

\* _compute_notebook_cache_key with the modification time left out.
ComputeNotebookCacheKey_NoMtime(path, st, execute) ==
  Sha256(IF st.present
           THEN path \o Colon \o Digits(st.size) \o Colon \o BoolStr(execute)
           ELSE path \o Colon \o MissingWord \o Colon \o BoolStr(execute))

\* _compute_notebook_cache_key(notebook_path, execute), lines 168-174. st
\* is what notebook_path.stat() returns, or Missing (FileNotFoundError).
ComputeNotebookCacheKey(path, st, execute) ==
  Sha256(IF st.present
           THEN path \o Colon \o Digits(st.mtime) \o Colon \o Digits(st.size)
                  \o Colon \o BoolStr(execute)
           ELSE path \o Colon \o MissingWord \o Colon \o BoolStr(execute))

\* _convert_notebook_to_html(notebook_path, execute), lines 177-193:
\* nbformat.read, ExecutePreprocessor.preprocess when execute, and
\* HTMLExporter() (imported in the function; its default template), none
\* of them inside a try. raised: an exception left the function.
ConvertNotebookToHtml(st, execute, execFails) ==
  IF ~st.present \/ ~st.doc.valid THEN [raised |-> TRUE, html |-> << >>]
  ELSE IF execute /\ execFails THEN [raised |-> TRUE, html |-> << >>]
  ELSE [raised |-> FALSE,
        html |-> LibraryHtml(TplLab, [cells |-> st.doc.cells, executed |-> execute])]

\* The arguments st.cache_data keys an entry by (line 197).
CacheArgs(path_str, execute, cache_key) ==
  [path |-> path_str, execute |-> execute, cache_key |-> cache_key]

\* The stored value for args, cache being a set of [args, html] entries.
Stored(c, args) == (CHOOSE e \in c : e.args = args).html
IsStored(c, args) == \E e \in c : e.args = args

\* What identifies the state of a file for a request: path, modification
\* time, size and execute flag, or path and execute for a missing file.
Fingerprint(path_str, st, execute) ==
  [path |-> path_str, present |-> st.present, mtime |-> st.mtime, size |-> st.size,
   execute |-> execute]

NoTab ==
  [outcome |-> "none", listing |-> << >>, selected |-> << >>, execute |-> FALSE,
   execFails |-> FALSE, present |-> FALSE, fingerprint |-> "none", seen |-> FALSE,
   stored |-> << >>, invoked |-> FALSE, html |-> << >>, tree |-> {}]

TabInit ==
  /\ disk = FileState(DocGood, 1)
  /\ cache = {}
  /\ conversions = 0
  /\ completed = {}
  /\ tab = NoTab

\* The file is edited, touched, restored or deleted outside the program.
EditFile ==
  /\ \E st \in FileStates : st # disk /\ disk' = st
  /\ UNCHANGED << cache, conversions, completed, tab >>
  /\ UNCHANGED << viewerVars, templateVars, cssVars >>

\* The notebooks the tab lists (line 213), as a tuple.
TabNotebooks(d) ==
  LET found == ListNotebooks(TabRoot, TabTree(d), "posix")
  IN  SubSeq(found, 1, Len(found))

\* The options of the selectbox (line 218).
TabOptions(notebooks) ==
  SubSeq([i \in 1..Len(notebooks) |-> RelativeStr(notebooks[i], TabRoot, "posix")],
         1, Len(notebooks))

\* A click on "Convertir et afficher" in _ui_notebooks_tab (lines 202-243):
\* the listing, the selectbox (sel), the cache key, the cached conversion,
\* the page. gone: a.ipynb is deleted between the listing and the stat.
TabRequest ==
  /\ UNCHANGED << viewerVars, templateVars, cssVars >>
  /\ \E notebooks \in { TabNotebooks(disk) } :
     \E listing \in { TabOptions(notebooks) }, sel \in 1..Len(notebooks),
        execute \in BOOLEAN, execFails \in BOOLEAN, gone \in BOOLEAN :
     \E rel \in { SubSeq(notebooks[sel], Len(TabRoot) + 1, Len(notebooks[sel])) },
        path_str \in { PathStr(notebooks[sel], "posix") } :
     \E st \in { IF gone /\ rel = EditedFile THEN Missing ELSE StatOf(disk, rel) } :
     \E cache_key \in { ComputeNotebookCacheKey(path_str, st, execute) },
        fp \in { Fingerprint(path_str, st, execute) } :
     \E args \in { CacheArgs(path_str, execute, cache_key) } :
       LET hit == IsStored(cache, args)
           seen == \E c \in completed : c.fp = fp
           base == [NoTab EXCEPT !.listing = listing, !.selected = listing[sel],
                                 !.tree = TabTree(disk),
                                 !.execute = execute, !.execFails = execute /\ execFails,
                                 !.present = st.present, !.fingerprint = fp, !.seen = seen,
                                 !.stored = IF seen
                                              THEN (CHOOSE c \in completed : c.fp = fp).html
                                              ELSE << >>,
                                 !.invoked = ~hit]
       IN  /\ execute \/ ~execFails
           /\ gone => (rel = EditedFile /\ disk.present)
           /\ hit \/ conversions < MaxConversions
           /\ disk' = IF gone THEN Missing ELSE disk
           /\ IF hit
                THEN /\ tab' = [base EXCEPT !.outcome = "html",
                                            !.html = Stored(cache, args)]
                     /\ UNCHANGED << cache, conversions, completed >>
                ELSE /\ conversions' = conversions + 1
                     /\ \E cv \in { ConvertNotebookToHtml(st, execute, execFails) } :
                          IF cv.raised
                            THEN /\ tab' = [base EXCEPT !.outcome = "error"]
                                 /\ UNCHANGED << cache, completed >>
                            ELSE /\ tab' = [base EXCEPT !.outcome = "html", !.html = cv.html]
                                 /\ cache' = cache \cup { [args |-> args, html |-> cv.html] }
                                 /\ completed' =
                                      completed \cup { [fp |-> fp, html |-> cv.html] }

TabNext == EditFile \/ TabRequest

(* ------------------------------------------------------------------ *)
(* template_ui/streamlit_app.py: the Templates tab (lines 13-148)       *)
(* ------------------------------------------------------------------ *)

\* The templates of the templates directory: the two that
\* get_default_context_for_template names (lines 25, 36) and one with a
\* syntax error. uses: the variables the template prints.
Template(name, uses, ok) == [name |-> name, uses |-> uses, syntax_ok |-> ok]
Templates ==
  LET ReportName ==
        << "s", "i", "m", "p", "l", "e", "_", "r", "e", "p", "o", "r", "t", ".", "h", "t",
           "m", "l", ".", "j", "2" >>
      LetterName ==
        << "l", "e", "t", "t", "e", "r", ".", "m", "d", ".", "j", "2" >>
      BrokenName ==
        << "b", "r", "o", "k", "e", "n", ".", "t", "x", "t", ".", "j", "2" >>
      TplReport == Template(ReportName, { "title" }, TRUE)
      TplLetter == Template(LetterName, { "subject" }, TRUE)
      TplBroken == Template(BrokenName, {}, FALSE)
  IN  { TplReport, TplLetter, TplBroken }

\* Texts of the context text area.
CtxTitle ==
  << "{", DQuote, "t", "i", "t", "l", "e", DQuote, ":", " ", DQuote, "T", DQuote, "}" >>
CtxSubject ==
  << "{", DQuote, "s", "u", "b", "j", "e", "c", "t", DQuote, ":", " ", DQuote, "S",
     DQuote, "}" >>
CtxEmpty ==
  << "{", "}" >>
CtxList ==
  << "[", "1", "]" >>
CtxNaN ==
  << "{", DQuote, "t", "i", "t", "l", "e", DQuote, ":", " ", "N", "a", "N", "}" >>

\* The depth of nesting json.loads parses before the interpreter's
\* recursion limit stops it.
MaxDepth == 3

\* Opening brackets, one more than MaxDepth, never closed.
CtxDeep == [i \in 1..(MaxDepth + 1) |-> "["]

ContextTexts ==
  LET CtxTruncated ==
        << "{", DQuote, "t", "i", "t", "l", "e", DQuote, ":", " " >>
      CtxTrailingComma ==
        << "{", DQuote, "t", "i", "t", "l", "e", DQuote, ":", " ", DQuote, "T", DQuote, ",",
           "}" >>
      CtxBlank == << >>
  IN  { CtxTitle, CtxSubject, CtxEmpty, CtxList, CtxNaN, CtxTruncated, CtxTrailingComma,
        CtxBlank, CtxDeep }

RECURSIVE Nesting(_)
\* The arrays the decoder has entered, one inside the other, when it has
\* read the opening brackets text starts with.
Nesting(text) ==
  IF text = << >> \/ Head(text) # "[" THEN 0 ELSE 1 + Nesting(Tail(text))

\* json.loads(text) on these texts: the value, or the exception raised
\* (error). Python's parser takes NaN for a number; it raises
\* RecursionError, which is no JSONDecodeError, as soon as the nesting
\* passes MaxDepth. A mapping is the set of its (key, value) pairs.
JsonLoads(text) ==
  IF Nesting(text) > MaxDepth
    THEN [raises |-> TRUE, error |-> "RecursionError", mapping |-> FALSE, items |-> {}]
  ELSE IF text = CtxTitle
    THEN [raises |-> FALSE, error |-> "none", mapping |-> TRUE,
          items |-> { << "title", "T" >> }]
  ELSE IF text = CtxSubject
    THEN [raises |-> FALSE, error |-> "none", mapping |-> TRUE,
          items |-> { << "subject", "S" >> }]
  ELSE IF text = CtxNaN
    THEN [raises |-> FALSE, error |-> "none", mapping |-> TRUE,
          items |-> { << "title", "nan" >> }]
  ELSE IF text = CtxEmpty
    THEN [raises |-> FALSE, error |-> "none", mapping |-> TRUE, items |-> {}]
  ELSE IF text = CtxList
    THEN [raises |-> FALSE, error |-> "none", mapping |-> FALSE, items |-> {}]
  ELSE [raises |-> TRUE, error |-> "JSONDecodeError", mapping |-> FALSE, items |-> {}]

\* Lines 112-116: json.loads inside try/except json.JSONDecodeError.
\* caught: the except clause took the exception; escaped: an exception
\* of another class left the handler.
ParseContext(text) ==
  LET v == JsonLoads(text)
  IN  [caught |-> v.raises /\ v.error = "JSONDecodeError",
       escaped |-> v.raises /\ v.error # "JSONDecodeError",
       context |-> v]

\* detect_output_extension(template_name), lines 51-56
DetectOutputExtension(name) ==
  LET HtmlJ2 ==
        << ".", "h", "t", "m", "l", ".", "j", "2" >>
      MdJ2 ==
        << ".", "m", "d", ".", "j", "2" >>
      ExtHtml ==
        << "h", "t", "m", "l" >>
      ExtMd ==
        << "m", "d" >>
      ExtTxt ==
        << "t", "x", "t" >>
  IN  IF EndsWith(name, HtmlJ2) THEN ExtHtml
      ELSE IF EndsWith(name, MdJ2) THEN ExtMd
      ELSE ExtTxt

RECURSIVE ReplaceAll(_, _, _)
\* s.replace(pat, rep): every occurrence, left to right, not overlapping.
ReplaceAll(s, pat, rep) ==
  IF Len(s) < Len(pat) THEN s
  ELSE IF MatchAt(s, pat, 0) THEN rep \o ReplaceAll(SliceFrom(s, Len(pat)), pat, rep)
  ELSE << Head(s) >> \o ReplaceAll(Tail(s), pat, rep)

\* The file save_output writes, relative to the output directory (lines
\* 67-74).
OutputName(name) ==
  LET DotHtmlSuffix ==
        << ".", "h", "t", "m", "l" >>
      DotMdSuffix ==
        << ".", "m", "d" >>
      OutputSuffix ==
        << "_", "o", "u", "t", "p", "u", "t", "." >>
  IN  LET base == ReplaceAll(ReplaceAll(Stem(name), DotHtmlSuffix, << >>), DotMdSuffix, << >>)
      IN  base \o OutputSuffix \o DetectOutputExtension(name)

\* A rendered document: the template and, for each variable it prints,
\* the text printed.
Rendered(name, printed) == [template |-> name, printed |-> printed]
NoFile == Rendered(<< >>, {})

\* render_template_to_string(template_name, context), lines 59-63.
\* get_template raises when the file is absent (present = FALSE) or has a
\* syntax error; render(**context) raises TypeError when context is no
\* mapping. The Environment is built with jinja2's default Undefined: a
\* variable the context does not supply prints as the empty string.
RenderTemplateToString(t, present, context) ==
  IF ~present \/ ~t.syntax_ok \/ ~context.mapping
    THEN [raised |-> TRUE, content |-> NoFile]
    ELSE [raised |-> FALSE,
          content |-> Rendered(t.name,
                        { kv \in context.items : kv[1] \in t.uses }
                          \cup { << v, "" >> : v \in { u \in t.uses :
                                                        \A kv \in context.items : kv[1] # u } })]

MsgJsonInvalide ==
  << "J", "S", "O", "N", " ", "i", "n", "v", "a", "l", "i", "d", "e", ":", " " >>
MsgRenderError ==
  << "E", "r", "r", "e", "u", "r", " ", "l", "o", "r", "s", " ", "d", "u", " ", "r",
     "e", "n", "d", "u", " ", "d", "u", " ", "t", "e", "m", "p", "l", "a", "t", "e",
     ":", " " >>
MsgGenerated ==
  << "D", "o", "c", "u", "m", "e", "n", "t", " ", "g", "e", "n", "e", "r", "e", ":",
     " " >>

OutputNames == { OutputName(t.name) : t \in Templates }

NoTpl ==
  [outcome |-> "none", template |-> << >>, text |-> << >>, message |-> << >>,
   render_called |-> FALSE, save_called |-> FALSE, rendered |-> NoFile,
   supplied |-> TRUE, present |-> TRUE, before |-> [n \in OutputNames |-> NoFile]]

TemplatesInit ==
  /\ outputs = [n \in OutputNames |-> NoFile]
  /\ tpl = NoTpl

\* A click on "Generer le document" (lines 111-148) with template t
\* selected and text in the text area. vanished: the template file is
\* removed between the listing of line 89 and the rendering. unwritable:
\* write_text raises (the exception leaves the handler).
Generate ==
  /\ UNCHANGED << viewerVars, tabVars, cssVars >>
  /\ \E t \in Templates, text \in ContextTexts, vanished \in BOOLEAN, unwritable \in BOOLEAN :
    LET parsed == ParseContext(text)
        r == RenderTemplateToString(t, ~vanished, parsed.context)
        base == [NoTpl EXCEPT !.template = t.name, !.text = text, !.before = outputs]
        tried == [base EXCEPT !.render_called = TRUE, !.present = ~vanished,
                              !.supplied = \A v \in t.uses :
                                             \E kv \in parsed.context.items : kv[1] = v]
    IN  IF parsed.caught
          THEN /\ ~vanished /\ ~unwritable
               /\ tpl' = [base EXCEPT !.outcome = "json_error", !.message = MsgJsonInvalide]
               /\ UNCHANGED outputs
        ELSE IF parsed.escaped
          THEN /\ ~vanished /\ ~unwritable
               /\ tpl' = [base EXCEPT !.outcome = "exception"]
               /\ UNCHANGED outputs
        ELSE IF r.raised
          THEN /\ ~unwritable
               /\ tpl' = [tried EXCEPT !.outcome = "render_error", !.message = MsgRenderError]
               /\ UNCHANGED outputs
        ELSE IF unwritable
          THEN /\ tpl' = [tried EXCEPT !.outcome = "exception", !.save_called = TRUE,
                                       !.rendered = r.content]
               /\ UNCHANGED outputs
        ELSE /\ tpl' = [tried EXCEPT !.outcome = "generated", !.save_called = TRUE,
                                     !.rendered = r.content, !.message = MsgGenerated]
             /\ outputs' = [outputs EXCEPT ![OutputName(t.name)] = r.content]

(* ------------------------------------------------------------------ *)
(* inject_custom_css on its own                                         *)
(* ------------------------------------------------------------------ *)

\* The number of pieces a document is put together from.
MaxPieces == 3

Pieces ==
  LET PieceHead ==
        << "<", "h", "e", "a", "d", ">" >>
      PieceHeadMixed ==
        << "<", "H", "e", "A", "d", ">" >>
      PieceHtml ==
        << "<", "h", "t", "m", "l", ">" >>
      PieceHtmlOpen ==
        << "<", "H", "T", "M", "L" >>
      PieceAttr ==
        << " ", "l", "=", "1", ">" >>
      PieceHeadEnd ==
        << "<", "/", "h", "e", "a", "d", ">" >>
  IN  { PieceHead, PieceHeadMixed, PieceHtml, PieceHtmlOpen, PieceAttr, PieceHeadEnd,
        << "x" >>, << IDot >> }

RECURSIVE Documents(_)
\* The documents of at most n pieces.
Documents(n) ==
  IF n = 0 THEN { << >> }
  ELSE LET shorter == Documents(n - 1)
       IN  shorter \cup { d \o q : d \in shorter, q \in Pieces }

CssIdle == css_in = [html |-> << >>, css |-> << >>] /\ css_out = [done |-> FALSE, html |-> << >>]

CssInit ==
  /\ css_in \in [html : Documents(MaxPieces), css : CssTexts]
  /\ css_out = [done |-> FALSE, html |-> << >>]

\* inject_custom_css(html, css) is called on the inputs.
Inject ==
  /\ ~css_out.done
  /\ css_out' = [done |-> TRUE, html |-> InjectCustomCss(css_in.html, css_in.css)]
  /\ UNCHANGED css_in
  /\ UNCHANGED << viewerVars, tabVars, templateVars >>

(* ------------------------------------------------------------------ *)
(* Specifications                                                       *)
(* ------------------------------------------------------------------ *)

\* Every application before its first interaction.
Idle == ViewerInit /\ TabInit /\ TemplatesInit /\ CssIdle

\* inject_custom_css before the call, on each document and style sheet.
CssStart == ViewerInit /\ TabInit /\ TemplatesInit /\ CssInit

\* The viewer (deploy_app).
SpecViewer == Idle /\ [][ViewerNext]_vars

\* The Notebooks tab (template_ui).
SpecNotebooks == Idle /\ [][TabNext]_vars

\* The Templates tab (template_ui).
SpecTemplates == Idle /\ [][Generate]_vars

\* inject_custom_css as a function of its two arguments.
SpecCss == CssStart /\ [][Inject]_vars

(* ------------------------------------------------------------------ *)
(* Properties of the viewer                                             *)
(* ------------------------------------------------------------------ *)

\* A path string names an entry inside a checkpoint directory: one of its
\* directory parts is ".ipynb_checkpoints".
InCheckpointDir(f) ==
  \E sep \in { << "/" >>, << Backslash >> } :
    Contains(sep \o f, sep \o CheckpointMarker \o sep)
      \/ Contains(<< "/" >> \o f, << "/" >> \o CheckpointMarker \o sep)

\* The entries of a list.
Range(s) == {s[i] : i \in 1..Len(s)}

\* s is ordered by case-insensitive comparison of its strings.
SortedIgnoringCase(s) ==
  \A i, j \in 1..Len(s) : i < j => ~StrLess(Lower(s[j]), Lower(s[i]))

\* The notebooks of a local directory: the files whose name ends in
\* ".ipynb" that are in no checkpoint directory, as strings relative to
\* the root.
ExpectedLocal(local) ==
  { PathStr(rel, local.platform) :
      rel \in { r \in local.tree :
                  /\ EndsWith(r[Len(r)], DotIpynb)
                  /\ \A i \in 1..(Len(r) - 1) : r[i] # CheckpointMarker } }

\* C3: in main, when the remote listing returns ok=False or an empty list
\* the list resolved is the local listing and the source is "local";
\* otherwise the list is the remote one and the source is "github". The
\* local scan is made at most once (never in the github case), the list
\* offered is the resolved one filtered by the query, the caption names the
\* source used, and the conversion reads from that source.
C3_ResolutionFallback ==
  view.outcome \notin { "none", "exception" } =>
    /\ (view.listed = "failed" \/ view.listed_files = << >>) =>
         /\ view.used_source = "local"
         /\ view.resolved = LocalScan(view.local.tree, view.local.exists, view.local.platform)
         /\ view.local_scans = 1
    /\ (view.listed = "ok" /\ view.listed_files # << >>) =>
         /\ view.used_source = "github"
         /\ view.resolved = view.listed_files
         /\ view.local_scans = 0
    /\ view.files = ApplyQuery(view.resolved, view.query)
    /\ view.caption # "none" =>
         (view.caption = "GitHub" <=> view.used_source = "github")
    /\ view.read_from # "none" => view.read_from = view.used_source
    /\ view.outcome \in { "listed", "error", "html" } => view.caption # "none"

\* C3's case: the listing came back empty, the run fell back to a local
\* directory that holds notebooks, and the local notebook was converted.
C3_Witness ==
  /\ view.listed = "ok" /\ view.listed_files = << >>
  /\ view.used_source = "local" /\ view.resolved # << >>
  /\ view.outcome = "html" /\ view.read_from = "local"

\* Every entry of a list ends in ".ipynb" and is in no checkpoint
\* directory.
OnlyNotebooks(files) ==
  \A i \in 1..Len(files) : EndsWith(files[i], DotIpynb) /\ ~InCheckpointDir(files[i])

\* C4: every list the resolver produces, remote or local (the viewer's
\* list, whichever source it came from, and the list of the Notebooks tab),
\* holds only entries ending in ".ipynb" and no entry of a checkpoint
\* directory.
C4_OnlyNotebooksNoCheckpoints ==
  /\ OnlyNotebooks(view.listed_files)
  /\ OnlyNotebooks(view.resolved)
  /\ OnlyNotebooks(tab.listing)

\* C8: a remote call that times out or answers with an error status is a
\* handled failure: the listing then returns ok=False (and main falls back
\* to the local directory), the raw fetch returns (ok=False, message), and
\* so does a failure while parsing; no exception leaves either function.
C8_RemoteFailuresHandled ==
  /\ view.listed # "raised"
  /\ view.listed = "failed" => view.used_source = "local"
  /\ view.conv.fetch \in { "timeout", "error" } =>
       view.outcome = "error" /\ view.message # "none"
  /\ (view.conv.fetch = "ok" /\ view.conv.doc = "invalid") =>
       view.outcome = "error" /\ view.message # "none"

\* C9 as claimed: with the token configured every API request carries
\* Authorization and no raw request does; without it no request does.
C9_NoAuthOnRaw ==
  \A i \in 1..Len(view.sent) :
    LET r == view.sent[i]
    IN  /\ r.kind = "api" => (HAuth \in r.headers <=> view.secret = "token")
        /\ r.kind = "raw" => HAuth \notin r.headers

\* C9, amended: a request carries Authorization exactly when the token is
\* configured, the raw fetch included; the raw fetch leaves out only the
\* Accept and X-GitHub-Api-Version headers, which every API request
\* carries. With the token absent, empty or its lookup failing, the
\* requests are still sent, without Authorization.
C9_AuthWheneverToken ==
  /\ \A i \in 1..Len(view.sent) :
       LET r == view.sent[i]
       IN  /\ HAuth \in r.headers <=> view.secret = "token"
           /\ r.kind = "api" => { HAccept, HApiVersion } \subseteq r.headers
           /\ r.kind = "raw" => r.headers \cap { HAccept, HApiVersion } = {}
  /\ view.outcome # "none" => Len(view.sent) >= 1

\* C9's case: the token is configured and the raw fetch was sent.
C9_Witness ==
  /\ view.secret = "token"
  /\ \E i \in 1..Len(view.sent) : view.sent[i].kind = "raw" /\ HAuth \in view.sent[i].headers
  /\ \E i \in 1..Len(view.sent) : view.sent[i].kind = "api"

\* C10: each local listing (the viewer's fallback scan and the list of the
\* Notebooks tab) is exactly the notebooks of the directory outside
\* checkpoint directories, relative to the root, in case-insensitive
\* order.
C10_LocalListing ==
  /\ view.used_source = "local" =>
       /\ Range(view.resolved) = ExpectedLocal(view.local)
       /\ Len(view.resolved) = Cardinality(ExpectedLocal(view.local))
       /\ SortedIgnoringCase(view.resolved)
  /\ tab.outcome # "none" =>
       /\ Range(tab.listing) = ExpectedLocal([tree |-> tab.tree, platform |-> "posix"])
       /\ Len(tab.listing) = Cardinality(ExpectedLocal([tree |-> tab.tree, platform |-> "posix"]))
       /\ SortedIgnoringCase(tab.listing)

\* C1: in every export path a conversion asked with execute whose
\* execution fails still ends with HTML: in the viewer's two paths
\* (convert_ipynb_to_html, fetch_and_convert_from_github) for a notebook
\* that parses, and in the Notebooks tab for a notebook that is there.
C1_ExecFailureStillHtml ==
  /\ (view.clicked /\ view.conv.execute /\ view.conv.execFails /\ view.conv.doc = "valid") =>
       (view.outcome = "html" /\ view.html # << >>)
  /\ (tab.outcome # "none" /\ tab.execute /\ tab.execFails /\ tab.present) =>
       (tab.outcome = "html" /\ tab.html # << >>)

\* C2: the renderers are tried in the order classic, basic, minimal and the
\* first success is returned: classic's output whenever nbconvert can
\* render the node with it, basic's when only basic can, the minimal
\* renderer's only when both fail; and a string comes back in every case.
C2_FirstRendererThatSucceeds ==
  view.outcome = "html" =>
    /\ view.conv.lib.classic => view.renderer = "classic"
    /\ (~view.conv.lib.classic /\ view.conv.lib.basic) => view.renderer = "basic"
    /\ view.renderer \in { "minimal", "giveup" } =>
         (~view.conv.lib.classic /\ ~view.conv.lib.basic)
    /\ view.base_html # << >>

(* ------------------------------------------------------------------ *)
(* Properties of the Notebooks tab                                      *)
(* ------------------------------------------------------------------ *)

\* C5: a request invokes _convert_notebook_to_html if and only if no
\* earlier request with the same fingerprint (path, modification time,
\* size, execute flag) has completed; when one has, the request returns
\* the HTML stored by it, unchanged.
C5_ConvertsIffFingerprintNew ==
  tab.outcome # "none" =>
    /\ tab.invoked <=> ~tab.seen
    /\ tab.seen => (tab.outcome = "html" /\ tab.html = tab.stored)
    /\ (tab.invoked /\ tab.outcome = "html") =>
         [fp |-> tab.fingerprint, html |-> tab.html] \in completed

\* C5's case: after the modification time changed the file was converted
\* again, and a later request with a fingerprint already converted got the
\* stored HTML without a conversion.
C5_Witness ==
  /\ tab.outcome = "html" /\ tab.seen /\ ~tab.invoked
  /\ conversions >= 2
  /\ \E c \in completed :
       /\ c.fp.path = tab.fingerprint.path
       /\ c.fp.execute = tab.fingerprint.execute
       /\ c.fp.mtime # tab.fingerprint.mtime

(* ------------------------------------------------------------------ *)
(* Properties of the Templates tab                                      *)
(* ------------------------------------------------------------------ *)

\* "JSON invalide"
JsonInvalide == Slice(MsgJsonInvalide, 0, 13)

\* C7: a click on generate with a context text json.loads does not parse
\* ends with a message starting with "JSON invalide", without a call of
\* render_template_to_string or save_output, and leaves the output files
\* as they were.
C7_InvalidJsonStopsGenerate ==
  (tpl.outcome # "none" /\ JsonLoads(tpl.text).raises) =>
    /\ tpl.outcome = "json_error"
    /\ Slice(tpl.message, 0, Len(JsonInvalide)) = JsonInvalide
    /\ ~tpl.render_called
    /\ ~tpl.save_called
    /\ outputs = tpl.before

\* The template of the given name has no syntax error.
SyntaxOk(name) == \A t \in Templates : t.name = name => t.syntax_ok

\* "Erreur lors du rendu du template"
RenduError == Slice(MsgRenderError, 0, Len(MsgRenderError) - 2)

\* The click ended with the render error and wrote nothing.
RenderErrorReported ==
  /\ tpl.outcome = "render_error"
  /\ Slice(tpl.message, 0, Len(RenduError)) = RenduError
  /\ ~tpl.save_called
  /\ outputs = tpl.before

\* C11: whenever rendering meets a template-side error (the template file
\* is absent, the template has a syntax error, or it prints a variable the
\* context does not supply), the click reports a render error and writes no
\* output file: no document with a missing variable defaulted is saved.
C11_TemplateErrorsReported ==
  (tpl.render_called /\ (~tpl.present \/ ~SyntaxOk(tpl.template) \/ ~tpl.supplied)) =>
    RenderErrorReported

\* C11 for the absent template and the syntax error alone.
C11_AbsentOrBrokenReported ==
  (tpl.render_called /\ (~tpl.present \/ ~SyntaxOk(tpl.template))) => RenderErrorReported


(* ------------------------------------------------------------------ *)
(* Properties of inject_custom_css                                      *)
(* ------------------------------------------------------------------ *)

\* The character c is the character p of a tag, in either case.
SameLetter(c, p) == LowerTable[c] = << p >>

\* The tag pat stands at the 0-based offset i of s, in any case.
TagAt(s, pat, i) ==
  /\ i + Len(pat) <= Len(s)
  /\ \A k \in 1..Len(pat) : SameLetter(s[i + k], pat[k])

\* The offset of the first occurrence of the tag from start on, or -1.
FirstTag(s, pat, start) ==
  LET hits == { i \in start..(Len(s) - Len(pat)) : TagAt(s, pat, i) }
  IN  IF hits = {} THEN -1 ELSE CHOOSE i \in hits : \A j \in hits : i <= j

\* The document the three-case rule asks for.
Spliced(html, css) ==
  LET block == StyleOpen \o css \o StyleClose
      head == FirstTag(html, HeadTag, 0)
      root == FirstTag(html, HtmlOpen, 0)
      close == IF root = -1 THEN -1 ELSE FirstTag(html, << ">" >>, root)
  IN  IF head # -1
        THEN Slice(html, 0, head + Len(HeadTag)) \o block
               \o SliceFrom(html, head + Len(HeadTag))
      ELSE IF close # -1
        THEN Slice(html, 0, close + 1) \o HeadTag \o block \o HeadEnd
               \o SliceFrom(html, close + 1)
      ELSE block \o html

\* C6: inject_custom_css returns html unchanged for a blank css, and
\* otherwise html with one style block spliced in: right after the first
\* head-opening tag (in any case) if there is one, else in a new head
\* right after the closing ">" of the root html tag if there is one, else
\* in front of the document.
C6_ThreeCaseRule ==
  css_out.done =>
    css_out.html = IF IsBlank(css_in.css) THEN css_in.html
                   ELSE Spliced(css_in.html, css_in.css)

\* C6 on documents of ASCII characters only.
C6_ThreeCaseRuleAscii ==
  (css_out.done /\ \A i \in 1..Len(css_in.html) : css_in.html[i] # IDot) =>
    css_out.html = IF IsBlank(css_in.css) THEN css_in.html
                   ELSE Spliced(css_in.html, css_in.css)

====
